---- MODULE Spec2Model ----
(***************************************************************************)
(* Model of the resilient crawl orchestrator of auction_scraper.py:        *)
(*   - ProxyRotator        (the egress identity pool),                     *)
(*   - PageScraper         (one page fetch job and its browser sessions),  *)
(*   - MachineryPeteScraper.scrape_pages (batches, worker pool, flushes,   *)
(*     the serial retry pass).                                             *)
(* Spec         runs scrape_pages over a page range with its worker jobs.  *)
(* SpecPool     runs concurrent callers of ProxyRotator.                   *)
(* FairSpecJob  runs PageScraper jobs alone, their threads kept running.   *)
(* FairSpecRun  runs scrape_pages with no error of the loop itself.        *)
(* SpecScenario runs scrape_pages(1, 4) on a site with fixed answers.      *)
(* SpecWorkers  runs scrape_pages for every max_workers argument.          *)
(* SpecOutputs  runs scrape_pages with output files of an earlier run.     *)
(* SpecItems    runs one job on a page with fixed listing elements.         *)
(* SpecFlush    runs save_results alone.                                    *)
(* SpecLongPool runs ProxyRotator on provider lists longer than its caps.   *)
(* SpecBrands   runs tractorlib's chunk_list and scrape_all_brands.         *)
(***************************************************************************)
EXTENDS Integers, Sequences, FiniteSets

\* ------------------------------------------------------------- bounds
\* the catalogue has the pages 1..NumPages
NumPages == 4
\* a call of scrape_pages with free arguments names pages within 1..MaxPage
MaxPage == 3
\* a rendered page holds at most MaxItems listing elements
MaxItems == 1

\* MachineryPeteScraper is constructed with max_workers None (written 0) or
\* 1..MaxWorkers
MaxWorkers == 3

\* a page with fixed answers holds at most MaxListed listing elements
MaxListed == 3

\* the provider may list up to MaxExcess candidates more than update_proxies tests
MaxExcess == 1

\* tractorlib: BRANDS names NumBrands brands
NumBrands == 4
\* a brand's page lists at most MaxModels tractor models
MaxModels == 1

\* number of threads calling the ProxyRotator
NumThreads == 2
\* number of distinct proxy endpoints the provider may list
NumProxies == 2
\* number of times the clock advances
MaxTicks == 2

\* ------------------------------------------------- program constants
\* scrape_page: max_retries = 3
max_retries == 3
\* scrape_pages: batch_size = 2
batch_size == 2
\* scrape_pages: ThreadPoolExecutor(max_workers=2)
pool_workers == 2
\* MachineryPeteScraper.__init__: max_workers or 2
default_workers == 2
\* ProxyRotator.__init__: self.update_interval = 300
update_interval == 300
\* update_proxies: list(new_proxies)[:50]
test_limit == 50
\* update_proxies: stop after 10 valid proxies
valid_limit == 10
\* seconds by which one tick advances the clock: one tick stays within
\* update_interval, two exceed it
tick_seconds == (2 * update_interval) \div 3

Pages == 1..NumPages
Threads == 1..NumThreads
Endpoints == 1..NumProxies
\* no thread holds the lock
NoThread == 0
\* get_proxy returned None
NoProxy == 0
\* self.driver = None
NoDriver == 0

VARIABLES
    \* ---- MachineryPeteScraper.scrape_pages
    start_page, end_page,   \* the arguments of scrape_pages
    opc,                    \* position of the orchestrator thread
    batch_start,            \* loop variable of the batch loop
    collected,              \* futures of the current batch already taken from as_completed
    all_results,            \* the accumulated record list
    failed_pages,           \* the failed-page list
    retry_idx,              \* position of the retry loop in failed_pages
    results,                \* self.results
    aliased,                \* self.results is the list object all_results
    store,                  \* records of the last completed write of this call (none: <<>>)
    prev_store,             \* records the output files held before that write
    dispatched,             \* per page: main-pass jobs submitted for it
    batches,                \* the <<batch_start, batch_end>> of the batches started so far
    retried,                \* per page: retry-pass jobs created for it
    stale,                  \* records the output files held when scrape_pages was called
    max_workers,            \* self.max_workers
    \* ---- one PageScraper job per page (main pass, then possibly the retry pass)
    jpc,                    \* position of the job of page p
    driver,                 \* self.driver: NoDriver or the index of the session in sessions[p]
    retry_count,            \* retry_count of scrape_page
    sessions,               \* per session started by the job: how many times quit() was called on it
    ret,                    \* what scrape_page returned
    attempts,               \* iterations of the while loop entered so far
    outcome,                \* how the last attempt ended
    extracted,              \* <<attempt, records>> of the last attempt that extracted
    leaked,                 \* browser processes of finished jobs that were never quit
    \* ---- the site
    script,                 \* per page: the answers <<wait, elements, elements that give a
                            \* record>> fixed for its next item waits (<<>>: any)
    \* ---- ProxyRotator
    proxies,                \* self.proxies
    current_index,          \* self.current_index
    lock,                   \* self.lock: NoThread or the thread that holds it
    last_update,            \* self.last_update
    now,                    \* time.time()
    ticks,                  \* how often the clock advanced
    tpc,                    \* position of each calling thread
    nested,                 \* the thread's update_proxies was called by its get_proxy
    last_ret,               \* [id, n]: the latest get_proxy result and the pool size then
    prev_ret,               \* the same for the get_proxy call before it
    \* ---- tractorlib.py: TractorScraper
    bpc,                    \* position of the caller of TractorScraper
    num_processes,          \* the argument of scrape_all_brands
    chunk_lst,              \* lst of the chunk_list call
    chunk_size,             \* chunk_size of the chunk_list call
    brand_chunks,           \* what chunk_list returned
    chunk_done,             \* per chunk: brands its scrape_brand_chunk call has scraped
    chunk_results,          \* per chunk: results of its scrape_brand_chunk call
    brand_models,           \* per brand: the model lists scrape_brand_models returned for it
    tractor_results         \* TractorScraper.self.results

ovars == <<start_page, end_page, opc, batch_start, collected, all_results,
           failed_pages, retry_idx, results, aliased, store, prev_store,
           dispatched, batches, retried, stale, max_workers>>
jvars == <<jpc, driver, retry_count, sessions, ret, attempts, outcome, extracted, leaked>>
pvars == <<proxies, current_index, lock, last_update, now, ticks, tpc, nested,
           last_ret, prev_ret>>
\* tractorlib.py
bvars == <<bpc, num_processes, chunk_lst, chunk_size, brand_chunks, chunk_done,
           chunk_results, brand_models, tractor_results>>
vars == <<ovars, jvars, pvars, script, bvars>>

\* ------------------------------------------------------------ helpers
IsPrefix(s, t) == Len(s) <= Len(t) /\ SubSeq(t, 1, Len(s)) = s

Count(r, s) == Cardinality({i \in DOMAIN s : s[i] = r})

\* driver.quit() is not called
Quit_skipped(sess, d) == sess

\* session d of the job is quit once more (driver.quit()); nothing when there is no driver
Quit(sess, d) == IF d = NoDriver THEN sess ELSE [sess EXCEPT ![d] = @ + 1]

\* sessions of a job on which quit() was never called
Unquit(sess) == {k \in DOMAIN sess : sess[k] = 0}


\* ------------------------------------------------ PageScraper (the job)
\* setup_driver: the browser process is started by the primary initialisation or,
\* when that fails, by the fallback
SetupStarts(primary, fallback) == primary \/ fallback

\* setup_driver raises when neither initialisation starts a browser, or when the
\* anti-detection commands issued after the start fail
SetupRaises(primary, fallback, stealth) == ~(primary \/ fallback) \/ ~stealth

\* sessions of the job after a setup_driver call
SetupSessions(sess, primary, fallback) ==
    IF SetupStarts(primary, fallback) THEN Append(sess, 0) ELSE sess

\* self.driver after a setup_driver call that found self.driver = d
SetupDriver(d, sess, primary, fallback) ==
    IF SetupStarts(primary, fallback) THEN Len(sess) + 1 ELSE d

\* the listing loop is left at the first element that gives no record
Extract_abort(p, n, kept) ==
    SelectSeq([i \in 1..n |-> <<p, i>>], LAMBDA r : \A i \in 1..r[2] : i \in kept)

\* the records of one attempt: one per listing element whose extraction and parsing
\* gave a record, in the order of the element list
Extract(p, n, kept) ==
    SelectSeq([i \in 1..n |-> <<p, i>>], LAMBDA r : r[2] \in kept)

\* the retry counter is not advanced
NextRetryCount_stuck(rc) == rc

\* retry_count += 1
NextRetryCount(rc) == rc + 1

\* the except clause leaves self.driver set after quitting it
HandlerDriver_kept(d) == d

\* self.driver after the clean-up of the except clause (self.driver = None)
HandlerDriver(d) == NoDriver

\* the except clause retries without a limit
ShouldRetry_always(rc) == TRUE

\* the except clause retries while retry_count < max_retries
ShouldRetry(rc) == rc < max_retries

\* the finally clause: quit the driver when there is one
FinallySessions(sess, d) == Quit(sess, d)

\* except clause, then finally clause, of an attempt that raised with self.driver = d
JobFail(p, d, sess) ==
    LET rc == NextRetryCount(retry_count[p])
        s1 == Quit(sess, d)
        d1 == HandlerDriver(d)
        s2 == FinallySessions(s1, d1)
    IN  /\ retry_count' = [retry_count EXCEPT ![p] = rc]
        /\ sessions' = [sessions EXCEPT ![p] = s2]
        /\ driver' = [driver EXCEPT ![p] = NoDriver]
        /\ outcome' = [outcome EXCEPT ![p] = "error"]
        /\ IF ShouldRetry(rc)
             THEN /\ jpc' = [jpc EXCEPT ![p] = "attempt"]
                  /\ UNCHANGED <<ret, leaked>>
             ELSE /\ jpc' = [jpc EXCEPT ![p] = "returned"]
                  /\ ret' = [ret EXCEPT ![p] = <<>>]
                  /\ leaked' = leaked + Cardinality(Unquit(s2))

\* return results
ReturnValue(rs) == rs

\* a return statement inside the try block advances the retry counter
JobReturn_counted(p, rs, o) ==
    LET s1 == FinallySessions(sessions[p], driver[p])
    IN  /\ sessions' = [sessions EXCEPT ![p] = s1]
        /\ driver' = [driver EXCEPT ![p] = NoDriver]
        /\ ret' = [ret EXCEPT ![p] = rs]
        /\ outcome' = [outcome EXCEPT ![p] = o]
        /\ jpc' = [jpc EXCEPT ![p] = "returned"]
        /\ leaked' = leaked + Cardinality(Unquit(s1))
        /\ retry_count' = [retry_count EXCEPT ![p] = @ + 1]

\* a return statement inside the try block, then the finally clause
JobReturn(p, rs, o) ==
    LET s1 == FinallySessions(sessions[p], driver[p])
    IN  /\ sessions' = [sessions EXCEPT ![p] = s1]
        /\ driver' = [driver EXCEPT ![p] = NoDriver]
        /\ ret' = [ret EXCEPT ![p] = rs]
        /\ outcome' = [outcome EXCEPT ![p] = o]
        /\ jpc' = [jpc EXCEPT ![p] = "returned"]
        /\ leaked' = leaked + Cardinality(Unquit(s1))
        /\ UNCHANGED retry_count

\* PageScraper.__init__: self.driver = None; self.setup_driver()
JobInit(p) ==
    /\ jpc[p] = "init"
    /\ \E primary, fallback, stealth \in BOOLEAN :
         LET s1 == SetupSessions(sessions[p], primary, fallback)
             d1 == SetupDriver(driver[p], sessions[p], primary, fallback)
         IN  /\ sessions' = [sessions EXCEPT ![p] = s1]
             /\ driver' = [driver EXCEPT ![p] = d1]
             /\ IF SetupRaises(primary, fallback, stealth)
                  THEN /\ jpc' = [jpc EXCEPT ![p] = "raised"]
                       /\ leaked' = leaked + Cardinality(Unquit(s1))
                  ELSE /\ jpc' = [jpc EXCEPT ![p] = "attempt"]
                       /\ UNCHANGED leaked
    /\ UNCHANGED <<retry_count, ret, attempts, outcome, extracted>>
    /\ UNCHANGED <<ovars, pvars, script, bvars>>

\* scrape_page: head of the while loop; setup_driver when there is no driver
Attempt(p) ==
    /\ jpc[p] = "attempt"
    /\ retry_count[p] < max_retries
    /\ attempts' = [attempts EXCEPT ![p] = @ + 1]
    /\ IF driver[p] = NoDriver
         THEN \E primary, fallback, stealth \in BOOLEAN :
                LET s1 == SetupSessions(sessions[p], primary, fallback)
                    d1 == SetupDriver(driver[p], sessions[p], primary, fallback)
                IN  IF SetupRaises(primary, fallback, stealth)
                      THEN JobFail(p, d1, s1)
                      ELSE /\ sessions' = [sessions EXCEPT ![p] = s1]
                           /\ driver' = [driver EXCEPT ![p] = d1]
                           /\ jpc' = [jpc EXCEPT ![p] = "nav"]
                           /\ UNCHANGED <<retry_count, ret, outcome, leaked>>
         ELSE /\ jpc' = [jpc EXCEPT ![p] = "nav"]
              /\ UNCHANGED <<driver, sessions, retry_count, ret, outcome, leaked>>
    /\ UNCHANGED extracted
    /\ UNCHANGED <<ovars, pvars, script, bvars>>

\* scrape_page: the pacing sleep and self.driver.get(url)
Navigate(p) ==
    /\ jpc[p] = "nav"
    /\ \E ok \in BOOLEAN :
         IF ok
           THEN /\ jpc' = [jpc EXCEPT ![p] = "wait"]
                /\ UNCHANGED <<driver, sessions, retry_count, ret, outcome, leaked>>
           ELSE JobFail(p, driver[p], sessions[p])
    /\ UNCHANGED <<attempts, extracted>>
    /\ UNCHANGED <<ovars, pvars, script, bvars>>

\* scrape_page from the wait for the listing elements on, for one answer of the
\* site: the wait times out, gives an empty list, raises, or gives n elements of
\* which those in kept give a record
WaitOutcome(p, w, n, kept) ==
    CASE w = "timeout" -> JobReturn(p, <<>>, "timeout") /\ UNCHANGED extracted
      [] w = "empty" -> JobReturn(p, <<>>, "empty") /\ UNCHANGED extracted
      [] w = "found" ->
           /\ extracted' = [extracted EXCEPT
                              ![p] = <<attempts[p], Extract(p, n, kept)>>]
           /\ JobReturn(p, ReturnValue(Extract(p, n, kept)), "ok")
      [] w = "error" -> JobFail(p, driver[p], sessions[p]) /\ UNCHANGED extracted

\* scrape_page: wait for the listing elements, then extract and parse each of them.
\* The site answers as the script of the page says, and freely when it says nothing
WaitItems(p) ==
    /\ jpc[p] = "wait"
    /\ IF script[p] = <<>>
         THEN /\ \E w \in {"timeout", "empty", "found", "error"} :
                   IF w = "found"
                     THEN \E n \in 1..MaxItems : \E kept \in SUBSET (1..n) :
                              WaitOutcome(p, w, n, kept)
                     ELSE WaitOutcome(p, w, 0, {})
              /\ UNCHANGED script
         ELSE /\ WaitOutcome(p, Head(script[p])[1], Head(script[p])[2],
                             Head(script[p])[3])
              /\ script' = [script EXCEPT ![p] = Tail(@)]
    /\ UNCHANGED attempts
    /\ UNCHANGED <<ovars, pvars, bvars>>


\* ---------------------------------- MachineryPeteScraper.scrape_pages
Min(a, b) == IF a <= b THEN a ELSE b

\* batch_end = min(batch_start + batch_size - 1, end_page)
BatchEnd(bs, e) == Min(bs + batch_size - 1, e)

\* range(batch_start, batch_end + 1)
BatchPages(bs, e) == bs..BatchEnd(bs, e)

\* positions of a job that a worker thread (or the retry loop) is executing
Running == {"init", "attempt", "nav", "wait"}

\* only a job that returned counts as ended
Finished_returned == {"returned"}

\* a job has ended: scrape_page returned, or the job raised
Finished == {"returned", "raised"}

\* the page's records are added twice
Extend_twice(acc, rs) == acc \o rs \o rs

\* the page's records are put in front of the accumulated ones
Extend_front(acc, rs) == rs \o acc

\* all_results.extend(page_results)
Extend(acc, rs) == acc \o rs

\* save_results appends to the output files
Saved_append(rs, io, st) == IF rs = <<>> THEN st ELSE IF io = "ok" THEN st \o rs ELSE st

\* save_results: output files after the call; nothing is written for an empty
\* self.results, and a write that raises is logged and swallowed. The sink is
\* taken as atomic: a write completes or leaves the output as it was
Saved(rs, io, st) == IF rs = <<>> THEN st ELSE IF io = "ok" THEN rs ELSE st

\* what auction_results.json and auction_results.csv can hold before the call:
\* nothing, or the records an earlier run wrote (of a page 0, not of this range)
OldOutputs == {<<>>, <<<<0, 1>>>>}

\* what the output files hold: save_results opens them for writing only when it
\* is called with records, and they hold the records of its last completed write
ResultStore(st, old) == IF st = <<>> THEN old ELSE st

\* a new PageScraper job object for each page of B, at position pc0
NewJobs(B, pc0) ==
    /\ jpc' = [q \in Pages |-> IF q \in B THEN pc0 ELSE jpc[q]]
    /\ driver' = [q \in Pages |-> IF q \in B THEN NoDriver ELSE driver[q]]
    /\ retry_count' = [q \in Pages |-> IF q \in B THEN 0 ELSE retry_count[q]]
    /\ sessions' = [q \in Pages |-> IF q \in B THEN <<>> ELSE sessions[q]]
    /\ ret' = [q \in Pages |-> IF q \in B THEN <<>> ELSE ret[q]]
    /\ attempts' = [q \in Pages |-> IF q \in B THEN 0 ELSE attempts[q]]
    /\ outcome' = [q \in Pages |-> IF q \in B THEN "none" ELSE outcome[q]]
    /\ extracted' = [q \in Pages |-> IF q \in B THEN <<0, <<>>>> ELSE extracted[q]]
    /\ UNCHANGED leaked

\* the PageScraper object of page p is unreachable once its result was taken; the
\* returned list stays with the caller
DropJob(p) ==
    /\ jpc' = [jpc EXCEPT ![p] = "none"]
    /\ driver' = [driver EXCEPT ![p] = NoDriver]
    /\ retry_count' = [retry_count EXCEPT ![p] = 0]
    /\ sessions' = [sessions EXCEPT ![p] = <<>>]
    /\ attempts' = [attempts EXCEPT ![p] = 0]
    /\ outcome' = [outcome EXCEPT ![p] = "none"]
    /\ extracted' = [extracted EXCEPT ![p] = <<0, <<>>>>]
    /\ UNCHANGED <<ret, leaked>>

\* head of the batch loop: one _scrape_single_page future is submitted per page
StartBatch ==
    /\ opc = "loop"
    /\ batch_start <= end_page
    /\ NewJobs(BatchPages(batch_start, end_page), "queued")
    /\ dispatched' = [q \in Pages |-> IF q \in BatchPages(batch_start, end_page)
                                        THEN dispatched[q] + 1 ELSE dispatched[q]]
    /\ batches' = Append(batches, <<batch_start, BatchEnd(batch_start, end_page)>>)
    /\ collected' = {}
    /\ opc' = "collect"
    /\ UNCHANGED <<start_page, end_page, batch_start, all_results, failed_pages,
                   retry_idx, results, aliased, store, prev_store, retried, stale,
                   max_workers>>
    /\ UNCHANGED <<pvars, script, bvars>>

\* a worker thread of the executor takes a submitted job: _scrape_single_page
WorkerStart(p) ==
    /\ jpc[p] = "queued"
    /\ Cardinality({q \in Pages : jpc[q] \in Running}) < pool_workers
    /\ jpc' = [jpc EXCEPT ![p] = "init"]
    /\ UNCHANGED <<driver, retry_count, sessions, ret, attempts, outcome, extracted,
                   leaked>>
    /\ UNCHANGED <<ovars, pvars, script, bvars>>

\* body of the as_completed loop for the finished future of page p
Collect(p) ==
    /\ opc = "collect"
    /\ p \in BatchPages(batch_start, end_page) \ collected
    /\ jpc[p] \in Finished
    /\ collected' = collected \cup {p}
    /\ IF jpc[p] = "returned" /\ ret[p] # <<>>
         THEN /\ all_results' = Extend(all_results, ret[p])
              /\ UNCHANGED failed_pages
         ELSE /\ failed_pages' = Append(failed_pages, p)
              /\ UNCHANGED all_results
    /\ results' = IF aliased THEN all_results' ELSE results
    /\ DropJob(p)
    /\ UNCHANGED <<start_page, end_page, opc, batch_start, retry_idx, aliased,
                   store, prev_store>>
    /\ UNCHANGED <<pvars, script, bvars>>
    /\ UNCHANGED <<dispatched, batches, retried, stale, max_workers>>

\* the batch is saved and left without waiting for all its futures
BatchDone_early ==
    /\ opc = "collect"
    /\ IF all_results # <<>>
         THEN /\ results' = all_results
              /\ aliased' = TRUE
              /\ \E io \in {"ok", "fail"} :
                   /\ store' = Saved(all_results, io, store)
                   /\ prev_store' = IF io = "ok" THEN store ELSE prev_store
         ELSE UNCHANGED <<results, aliased, store, prev_store>>
    /\ batch_start' = batch_start + batch_size
    /\ opc' = "delay"
    /\ UNCHANGED <<start_page, end_page, collected, all_results, failed_pages, retry_idx>>
    /\ UNCHANGED <<jvars, pvars, script, bvars>>
    /\ UNCHANGED <<dispatched, batches, retried, stale, max_workers>>

\* the next batch follows the save without a delay
BatchDone_nodelay ==
    /\ opc = "collect"
    /\ collected = BatchPages(batch_start, end_page)
    /\ IF all_results # <<>>
         THEN /\ results' = all_results
              /\ aliased' = TRUE
              /\ \E io \in {"ok", "fail"} :
                   /\ store' = Saved(all_results, io, store)
                   /\ prev_store' = IF io = "ok" THEN store ELSE prev_store
         ELSE UNCHANGED <<results, aliased, store, prev_store>>
    /\ batch_start' = batch_start + batch_size
    /\ opc' = "loop"
    /\ UNCHANGED <<start_page, end_page, collected, all_results, failed_pages, retry_idx>>
    /\ UNCHANGED <<jvars, pvars, script, bvars>>
    /\ UNCHANGED <<dispatched, batches, retried, stale, max_workers>>

\* an error of the write inside save_results reaches scrape_pages
BatchDone_abort ==
    /\ opc = "collect"
    /\ collected = BatchPages(batch_start, end_page)
    /\ IF all_results # <<>>
         THEN /\ results' = all_results
              /\ aliased' = TRUE
              /\ \E io \in {"ok", "fail"} :
                   /\ store' = Saved(all_results, io, store)
                   /\ prev_store' = IF io = "ok" THEN store ELSE prev_store
                   /\ opc' = IF io = "ok" THEN "delay" ELSE "unwind"
         ELSE /\ UNCHANGED <<results, aliased, store, prev_store>>
              /\ opc' = "delay"
    /\ batch_start' = batch_start + batch_size
    /\ UNCHANGED <<start_page, end_page, collected, all_results, failed_pages, retry_idx>>
    /\ UNCHANGED <<jvars, pvars, script, bvars>>
    /\ UNCHANGED <<dispatched, batches, retried, stale, max_workers>>

\* after the executor block: save after the batch; the loop variable moves on to
\* the next batch, and the delay between batches follows
BatchDone ==
    /\ opc = "collect"
    /\ collected = BatchPages(batch_start, end_page)
    /\ IF all_results # <<>>
         THEN /\ results' = all_results
              /\ aliased' = TRUE
              /\ \E io \in {"ok", "fail"} :
                   /\ store' = Saved(all_results, io, store)
                   /\ prev_store' = IF io = "ok" THEN store ELSE prev_store
         ELSE UNCHANGED <<results, aliased, store, prev_store>>
    /\ batch_start' = batch_start + batch_size
    /\ opc' = "delay"
    /\ UNCHANGED <<start_page, end_page, collected, all_results, failed_pages, retry_idx>>
    /\ UNCHANGED <<jvars, pvars, script, bvars>>
    /\ UNCHANGED <<dispatched, batches, retried, stale, max_workers>>

\* time.sleep(random.uniform(3, 5)) at the end of the loop body, then back to the
\* head of the batch loop
Delay ==
    /\ opc = "delay"
    /\ opc' = "loop"
    /\ UNCHANGED <<start_page, end_page, batch_start, collected, all_results,
                   failed_pages, retry_idx, results, aliased, store, prev_store>>
    /\ UNCHANGED <<jvars, pvars, script, bvars>>
    /\ UNCHANGED <<dispatched, batches, retried, stale, max_workers>>

\* the retry of the failed pages begins while batches remain
LoopEnd_early ==
    /\ opc = "loop"
    /\ opc' = "retry"
    /\ retry_idx' = 1
    /\ UNCHANGED <<start_page, end_page, batch_start, collected, all_results,
                   failed_pages, results, aliased, store, prev_store>>
    /\ UNCHANGED <<jvars, pvars, script, bvars>>
    /\ UNCHANGED <<dispatched, batches, retried, stale, max_workers>>

\* the batch loop is exhausted: on to the retry of the failed pages
LoopEnd ==
    /\ opc = "loop"
    /\ batch_start > end_page
    /\ opc' = "retry"
    /\ retry_idx' = 1
    /\ UNCHANGED <<start_page, end_page, batch_start, collected, all_results,
                   failed_pages, results, aliased, store, prev_store>>
    /\ UNCHANGED <<jvars, pvars, script, bvars>>
    /\ UNCHANGED <<dispatched, batches, retried, stale, max_workers>>

\* retry loop: delay, then a new PageScraper for the next failed page
RetryStart ==
    /\ opc = "retry"
    /\ retry_idx <= Len(failed_pages)
    /\ NewJobs({failed_pages[retry_idx]}, "init")
    /\ retried' = [retried EXCEPT ![failed_pages[retry_idx]] = @ + 1]
    /\ opc' = "retry_job"
    /\ UNCHANGED <<start_page, end_page, batch_start, collected, all_results,
                   failed_pages, retry_idx, results, aliased, store, prev_store>>
    /\ UNCHANGED <<pvars, script, bvars>>
    /\ UNCHANGED <<dispatched, batches, stale, max_workers>>

\* retry loop: the job of the failed page ended; its records are added, an
\* exception is logged
RetryCollect ==
    /\ opc = "retry_job"
    /\ LET p == failed_pages[retry_idx]
       IN  /\ jpc[p] \in Finished
           /\ all_results' = IF jpc[p] = "returned" /\ ret[p] # <<>>
                               THEN Extend(all_results, ret[p])
                               ELSE all_results
    /\ results' = IF aliased THEN all_results' ELSE results
    /\ DropJob(failed_pages[retry_idx])
    /\ retry_idx' = retry_idx + 1
    /\ opc' = "retry"
    /\ UNCHANGED <<start_page, end_page, batch_start, collected, failed_pages,
                   aliased, store, prev_store>>
    /\ UNCHANGED <<pvars, script, bvars>>
    /\ UNCHANGED <<dispatched, batches, retried, stale, max_workers>>

\* after the retry loop: save the final results
FinalSave ==
    /\ opc = "retry"
    /\ retry_idx > Len(failed_pages)
    /\ IF all_results # <<>>
         THEN /\ results' = all_results
              /\ aliased' = TRUE
              /\ \E io \in {"ok", "fail"} :
                   /\ store' = Saved(all_results, io, store)
                   /\ prev_store' = IF io = "ok" THEN store ELSE prev_store
         ELSE UNCHANGED <<results, aliased, store, prev_store>>
    /\ opc' = "done"
    /\ UNCHANGED <<start_page, end_page, batch_start, collected, all_results,
                   failed_pages, retry_idx>>
    /\ UNCHANGED <<jvars, pvars, script, bvars>>
    /\ UNCHANGED <<dispatched, batches, retried, stale, max_workers>>

\* an exception raised by a statement of scrape_pages that no inner try block covers
OrchError ==
    /\ opc \in {"loop", "collect", "retry"}
    /\ opc' = "unwind"
    /\ UNCHANGED <<start_page, end_page, batch_start, collected, all_results,
                   failed_pages, retry_idx, results, aliased, store, prev_store>>
    /\ UNCHANGED <<jvars, pvars, script, bvars>>
    /\ UNCHANGED <<dispatched, batches, retried, stale, max_workers>>

\* the executor block is left once its jobs have ended; the outer except clause
\* logs and re-raises
Propagate ==
    /\ opc = "unwind"
    /\ \A q \in Pages : jpc[q] \notin Running \cup {"queued"}
    /\ opc' = "raised"
    /\ UNCHANGED <<start_page, end_page, batch_start, collected, all_results,
                   failed_pages, retry_idx, results, aliased, store, prev_store>>
    /\ UNCHANGED <<jvars, pvars, script, bvars>>
    /\ UNCHANGED <<dispatched, batches, retried, stale, max_workers>>

\* ------------------------------------------------ tractorlib.py
\* BRANDS, the brands named by their place in the list
BRANDS == [i \in 1..NumBrands |-> i]

Max(a, b) == IF a >= b THEN a ELSE b

\* the last elements, fewer than chunk_size, are left out
chunk_list_drop(lst, cs) ==
    [j \in 1..(Len(lst) \div cs) |->
        SubSeq(lst, (j - 1) * cs + 1, Min(j * cs, Len(lst)))]

\* TractorScraper.chunk_list: [lst[i:i + chunk_size] for i in range(0, len(lst),
\* chunk_size)]
chunk_list(lst, cs) ==
    [j \in 1..((Len(lst) + cs - 1) \div cs) |->
        SubSeq(lst, (j - 1) * cs + 1, Min(j * cs, Len(lst)))]

\* scrape_all_brands: chunk_size = max(1, len(BRANDS) // num_processes)
ChunkSize(n) == Max(1, Len(BRANDS) \div n)

\* the lists of a list of lists, one after the other
RECURSIVE Flatten(_)
Flatten(ss) == IF ss = <<>> THEN <<>> ELSE Head(ss) \o Flatten(Tail(ss))

\* the records scrape_brand_models gives for a brand whose page lists m models
BrandRecords(b, m) == [i \in 1..m |-> <<b, i>>]

\* TractorScraper.__init__; nothing was called yet
BrandsInit ==
    /\ bpc = "idle"
    /\ num_processes = 0
    /\ chunk_lst = <<>>
    /\ chunk_size = 0
    /\ brand_chunks = <<>>
    /\ chunk_done = <<>>
    /\ chunk_results = <<>>
    /\ brand_models = [b \in 1..NumBrands |-> <<>>]
    /\ tractor_results = <<>>

\* ProxyRotator.__init__; the clock starts later than update_interval seconds
\* after the epoch
PoolInit ==
    /\ proxies = <<>>
    /\ current_index = 0
    /\ lock = NoThread
    /\ last_update = 0
    /\ now = update_interval + 1
    /\ ticks = 0
    /\ tpc = [t \in Threads |-> "idle"]
    /\ nested = [t \in Threads |-> FALSE]
    /\ last_ret = [id |-> NoProxy, n |-> 0]
    /\ prev_ret = [id |-> NoProxy, n |-> 0]

\* no max_workers argument (None)
NoArg == 0

\* self.max_workers = max_workers or 2
SelfMaxWorkers(arg) == IF arg = NoArg THEN default_workers ELSE arg

\* MachineryPeteScraper.__init__, then the entry of scrape_pages(start_page, end_page)
CallInit ==
    /\ PoolInit
    /\ BrandsInit
    /\ opc = "loop"
    /\ batch_start = start_page
    /\ collected = {}
    /\ all_results = <<>>
    /\ failed_pages = <<>>
    /\ retry_idx = 1
    /\ results = <<>>
    /\ aliased = FALSE
    /\ store = <<>>
    /\ prev_store = <<>>
    /\ dispatched = [q \in Pages |-> 0]
    /\ batches = <<>>
    /\ retried = [q \in Pages |-> 0]
    /\ jpc = [q \in Pages |-> "none"]
    /\ driver = [q \in Pages |-> NoDriver]
    /\ retry_count = [q \in Pages |-> 0]
    /\ sessions = [q \in Pages |-> <<>>]
    /\ ret = [q \in Pages |-> <<>>]
    /\ attempts = [q \in Pages |-> 0]
    /\ outcome = [q \in Pages |-> "none"]
    /\ extracted = [q \in Pages |-> <<0, <<>>>>]
    /\ leaked = 0

\* a call scrape_pages(start_page, end_page) with any arguments, in a directory
\* that holds no output files, on a site that answers freely
Init ==
    /\ start_page \in 1..MaxPage
    /\ end_page \in (start_page - 1)..MaxPage
    /\ stale = <<>>
    /\ script = [q \in Pages |-> <<>>]
    /\ max_workers = SelfMaxWorkers(NoArg)
    /\ CallInit

Next ==
    \/ StartBatch
    \/ \E p \in Pages : WorkerStart(p)
    \/ \E p \in Pages : JobInit(p)
    \/ \E p \in Pages : Attempt(p)
    \/ \E p \in Pages : Navigate(p)
    \/ \E p \in Pages : WaitItems(p)
    \/ \E p \in Pages : Collect(p)
    \/ BatchDone
    \/ Delay
    \/ LoopEnd
    \/ RetryStart
    \/ RetryCollect
    \/ FinalSave
    \/ OrchError
    \/ Propagate

Spec == Init /\ [][Next]_vars


\* -------------------------------------------------------- ProxyRotator
\* the lists without repetition over S: list(new_proxies) of a set of endpoints,
\* in any iteration order
InjSeqs(S) ==
    UNION {{f \in [1..k -> S] : \A i, j \in 1..k : f[i] = f[j] => i = j} :
           k \in 0..Cardinality(S)}

\* the provider's answers: any list of distinct endpoints (none when the request
\* fails or the status is not 200)
CandidateLists == InjSeqs(Endpoints)

Range(s) == {s[i] : i \in DOMAIN s}

Take(s, k) == SubSeq(s, 1, Min(Len(s), k))

\* every candidate that passes the test is kept
ValidProxies_uncapped(cands, passing) == SelectSeq(cands, LAMBDA x : x \in passing)

\* update_proxies: of the first test_limit candidates, the ones that pass
\* _test_proxy, until valid_limit of them are found
ValidProxies(cands, passing) ==
    Take(SelectSeq(Take(cands, test_limit), LAMBDA x : x \in passing), valid_limit)

\* the lists update_proxies can come to write: one per answer of the provider and
\* per set of its endpoints that pass the test
RefreshResults ==
    UNION {{ValidProxies(cands, passing) : passing \in SUBSET Range(cands)} :
           cands \in CandidateLists}

\* with self.lock: a threading.Lock is acquired only when no thread holds it
CanAcquire(l, t) == l = NoThread

\* get_proxy: the pool is refreshed when it is empty or older than update_interval
NeedsUpdate(ps, lu, tm) == ps = <<>> \/ tm - lu > update_interval

\* the rotation index is not advanced
NextIndex_stay(i, ps) == i

\* self.current_index = (self.current_index + 1) % len(self.proxies)
NextIndex(i, ps) == (i + 1) % Len(ps)

\* self.current_index after a refresh
ResetIndex(i) == 0

\* a thread calls get_proxy()
CallGetProxy(t) ==
    /\ tpc[t] = "idle"
    /\ tpc' = [tpc EXCEPT ![t] = "gp_lock"]
    /\ nested' = [nested EXCEPT ![t] = FALSE]
    /\ UNCHANGED <<proxies, current_index, lock, last_update, now, ticks,
                   last_ret, prev_ret>>
    /\ UNCHANGED <<ovars, jvars, script, bvars>>

\* a thread calls update_proxies()
CallUpdateProxies(t) ==
    /\ tpc[t] = "idle"
    /\ tpc' = [tpc EXCEPT ![t] = "up_fetch"]
    /\ nested' = [nested EXCEPT ![t] = FALSE]
    /\ UNCHANGED <<proxies, current_index, lock, last_update, now, ticks,
                   last_ret, prev_ret>>
    /\ UNCHANGED <<ovars, jvars, script, bvars>>

\* get_proxy: take the lock, then decide whether to call update_proxies
GpEnter(t) ==
    /\ tpc[t] = "gp_lock"
    /\ CanAcquire(lock, t)
    /\ lock' = t
    /\ IF NeedsUpdate(proxies, last_update, now)
         THEN /\ tpc' = [tpc EXCEPT ![t] = "up_fetch"]
              /\ nested' = [nested EXCEPT ![t] = TRUE]
         ELSE /\ tpc' = [tpc EXCEPT ![t] = "gp_pick"]
              /\ UNCHANGED nested
    /\ UNCHANGED <<proxies, current_index, last_update, now, ticks,
                   last_ret, prev_ret>>
    /\ UNCHANGED <<ovars, jvars, script, bvars>>

\* update_proxies: fetch the provider's list and test the candidates, without the
\* lock. valid_proxies is local to the call: its value is drawn where it is
\* written to the pool, in UpWrite
UpFetch(t) ==
    /\ tpc[t] = "up_fetch"
    /\ tpc' = [tpc EXCEPT ![t] = "up_lock"]
    /\ UNCHANGED <<proxies, current_index, lock, last_update, now, ticks, nested,
                   last_ret, prev_ret>>
    /\ UNCHANGED <<ovars, jvars, script, bvars>>

\* update_proxies: with self.lock, replace the list, reset the index, stamp the time
UpWrite(t) ==
    /\ tpc[t] = "up_lock"
    /\ CanAcquire(lock, t)
    /\ \E valid_proxies \in RefreshResults : proxies' = valid_proxies
    /\ current_index' = ResetIndex(current_index)
    /\ last_update' = now
    /\ lock' = NoThread
    /\ tpc' = [tpc EXCEPT ![t] = IF nested[t] THEN "gp_pick" ELSE "idle"]
    /\ nested' = [nested EXCEPT ![t] = FALSE]
    /\ UNCHANGED <<now, ticks, last_ret, prev_ret>>
    /\ UNCHANGED <<ovars, jvars, script, bvars>>

\* get_proxy: None for an empty pool, else the proxy at current_index; the index
\* advances and the lock is released on return
GpPick(t) ==
    /\ tpc[t] = "gp_pick"
    /\ IF proxies = <<>>
         THEN /\ last_ret' = [id |-> NoProxy, n |-> 0]
              /\ UNCHANGED current_index
         ELSE /\ last_ret' = [id |-> proxies[current_index + 1], n |-> Len(proxies)]
              /\ current_index' = NextIndex(current_index, proxies)
    /\ prev_ret' = last_ret
    /\ lock' = NoThread
    /\ tpc' = [tpc EXCEPT ![t] = "idle"]
    /\ UNCHANGED <<proxies, last_update, now, ticks, nested>>
    /\ UNCHANGED <<ovars, jvars, script, bvars>>

\* time passes
Tick ==
    /\ ticks < MaxTicks
    /\ ticks' = ticks + 1
    /\ now' = now + tick_seconds
    /\ UNCHANGED <<proxies, current_index, lock, last_update, tpc, nested,
                   last_ret, prev_ret>>
    /\ UNCHANGED <<ovars, jvars, script, bvars>>

\* the steps of thread t inside a call of get_proxy or update_proxies
CallStep(t) == GpEnter(t) \/ UpFetch(t) \/ UpWrite(t) \/ GpPick(t)

PoolNext ==
    \/ \E t \in Threads : CallGetProxy(t)
    \/ \E t \in Threads : CallUpdateProxies(t)
    \/ \E t \in Threads : GpEnter(t)
    \/ \E t \in Threads : UpFetch(t)
    \/ \E t \in Threads : UpWrite(t)
    \/ \E t \in Threads : GpPick(t)
    \/ Tick

\* a ProxyRotator used by NumThreads threads; no crawl is running
InitPool ==
    /\ PoolInit
    /\ BrandsInit
    /\ start_page = 1
    /\ end_page = 1
    /\ opc = "loop"
    /\ batch_start = 1
    /\ collected = {}
    /\ all_results = <<>>
    /\ failed_pages = <<>>
    /\ retry_idx = 1
    /\ results = <<>>
    /\ aliased = FALSE
    /\ store = <<>>
    /\ prev_store = <<>>
    /\ dispatched = [q \in Pages |-> 0]
    /\ batches = <<>>
    /\ retried = [q \in Pages |-> 0]
    /\ stale = <<>>
    /\ max_workers = SelfMaxWorkers(NoArg)
    /\ jpc = [q \in Pages |-> "none"]
    /\ driver = [q \in Pages |-> NoDriver]
    /\ retry_count = [q \in Pages |-> 0]
    /\ sessions = [q \in Pages |-> <<>>]
    /\ ret = [q \in Pages |-> <<>>]
    /\ attempts = [q \in Pages |-> 0]
    /\ outcome = [q \in Pages |-> "none"]
    /\ extracted = [q \in Pages |-> <<0, <<>>>>]
    /\ leaked = 0
    /\ script = [q \in Pages |-> <<>>]

SpecPool == InitPool /\ [][PoolNext]_vars


\* _scrape_single_page alone: PageScraper jobs, one per page of a set of at most
\* pool_workers pages, each run by a thread of its own; no crawl is running
InitJob ==
    /\ PoolInit
    /\ BrandsInit
    /\ start_page = 1
    /\ end_page = MaxPage
    /\ opc = "jobs"
    /\ batch_start = 1
    /\ collected = {}
    /\ all_results = <<>>
    /\ failed_pages = <<>>
    /\ retry_idx = 1
    /\ results = <<>>
    /\ aliased = FALSE
    /\ store = <<>>
    /\ prev_store = <<>>
    /\ dispatched = [q \in Pages |-> 0]
    /\ batches = <<>>
    /\ retried = [q \in Pages |-> 0]
    /\ stale = <<>>
    /\ max_workers = SelfMaxWorkers(NoArg)
    /\ \E B \in SUBSET Pages :
         /\ Cardinality(B) \in 1..pool_workers
         /\ jpc = [q \in Pages |-> IF q \in B THEN "init" ELSE "none"]
    /\ driver = [q \in Pages |-> NoDriver]
    /\ retry_count = [q \in Pages |-> 0]
    /\ sessions = [q \in Pages |-> <<>>]
    /\ ret = [q \in Pages |-> <<>>]
    /\ attempts = [q \in Pages |-> 0]
    /\ outcome = [q \in Pages |-> "none"]
    /\ extracted = [q \in Pages |-> <<0, <<>>>>]
    /\ leaked = 0
    /\ script = [q \in Pages |-> <<>>]

JobNext ==
    \/ \E p \in Pages : JobInit(p)
    \/ \E p \in Pages : Attempt(p)
    \/ \E p \in Pages : Navigate(p)
    \/ \E p \in Pages : WaitItems(p)

SpecJob == InitJob /\ [][JobNext]_vars

\* the thread that runs a job keeps running
JobFairness ==
    \A p \in Pages : WF_vars(JobInit(p) \/ Attempt(p) \/ Navigate(p) \/ WaitItems(p))

FairSpecJob == SpecJob /\ JobFairness

\* scrape_pages when no statement of the orchestration loop itself raises: the
\* jobs may fail in every way, the loop runs to its end
RunNext ==
    \/ StartBatch
    \/ \E p \in Pages : WorkerStart(p)
    \/ \E p \in Pages : JobInit(p)
    \/ \E p \in Pages : Attempt(p)
    \/ \E p \in Pages : Navigate(p)
    \/ \E p \in Pages : WaitItems(p)
    \/ \E p \in Pages : Collect(p)
    \/ BatchDone
    \/ Delay
    \/ LoopEnd
    \/ RetryStart
    \/ RetryCollect
    \/ FinalSave

SpecRun == Init /\ [][RunNext]_vars

\* the orchestrator thread and the worker threads keep running: the process does
\* not stop while one of them can take a step
RunFairness == WF_vars(RunNext)

FairSpecRun == SpecRun /\ RunFairness

\* the scenario's site: the item wait of page 3 times out at the first two loads of
\* the page and gives 2 elements from the third load on; every other page gives 3
\* elements at every load; every element gives a record
ScenAnswer(p, k) ==
    IF p = 3
      THEN IF k <= 2 THEN <<"timeout", 0, {}>> ELSE <<"found", 2, 1..2>>
      ELSE <<"found", 3, 1..3>>

\* a page is loaded at most max_retries times by each of its at most two jobs
ScenScript(p) == [k \in 1..(2 * max_retries) |-> ScenAnswer(p, k)]

\* the scenario's call: scrape_pages(1, 4), no output files
InitScenario ==
    /\ start_page = 1
    /\ end_page = 4
    /\ stale = <<>>
    /\ script = [q \in Pages |-> ScenScript(q)]
    /\ max_workers = SelfMaxWorkers(NoArg)
    /\ CallInit

\* in the scenario every browser starts and every navigation succeeds
ScenJobInit(p) == JobInit(p) /\ jpc'[p] = "attempt"

ScenAttempt(p) == Attempt(p) /\ jpc'[p] = "nav"

ScenNavigate(p) == Navigate(p) /\ jpc'[p] = "wait"

ScenarioNext ==
    \/ StartBatch
    \/ \E p \in Pages : WorkerStart(p)
    \/ \E p \in Pages : ScenJobInit(p)
    \/ \E p \in Pages : ScenAttempt(p)
    \/ \E p \in Pages : ScenNavigate(p)
    \/ \E p \in Pages : WaitItems(p)
    \/ \E p \in Pages : Collect(p)
    \/ BatchDone
    \/ Delay
    \/ LoopEnd
    \/ RetryStart
    \/ RetryCollect
    \/ FinalSave

SpecScenario == InitScenario /\ [][ScenarioNext]_vars

\* MachineryPeteScraper(max_workers=arg) for any argument, then scrape_pages over
\* one full batch of pages, no output files, on a site that answers freely
InitWorkers ==
    /\ start_page = 1
    /\ end_page = batch_size
    /\ stale = <<>>
    /\ script = [q \in Pages |-> <<>>]
    /\ max_workers \in {SelfMaxWorkers(arg) : arg \in 0..MaxWorkers}
    /\ CallInit

SpecWorkers == InitWorkers /\ [][Next]_vars

\* a call scrape_pages(start_page, end_page) with any arguments, in a directory
\* with or without the output files of an earlier run
InitOutputs ==
    /\ start_page \in 1..MaxPage
    /\ end_page \in (start_page - 1)..MaxPage
    /\ stale \in OldOutputs
    /\ script = [q \in Pages |-> <<>>]
    /\ max_workers = SelfMaxWorkers(NoArg)
    /\ CallInit

SpecOutputs == InitOutputs /\ [][Next]_vars

\* the answers a page can give to one item wait: a timeout, an empty list, an
\* error, or n listing elements of which those in kept give a record (for the
\* others extract_listing_data or parse_listing_data gives nothing, or raises)
ItemAnswers ==
    {<<w, 0, {}>> : w \in {"timeout", "empty", "error"}}
        \cup UNION {{<<"found", n, kept>> : kept \in SUBSET (1..n)} : n \in 1..MaxListed}

\* the answers fixed for the first one or two item waits of a page
ItemScripts == {<<a>> : a \in ItemAnswers} \cup {<<a, b>> : a, b \in ItemAnswers}

\* _scrape_single_page(1) alone, on a page whose first item waits have fixed
\* answers; no crawl is running
InitItems ==
    /\ PoolInit
    /\ BrandsInit
    /\ start_page = 1
    /\ end_page = 1
    /\ opc = "jobs"
    /\ batch_start = 1
    /\ collected = {}
    /\ all_results = <<>>
    /\ failed_pages = <<>>
    /\ retry_idx = 1
    /\ results = <<>>
    /\ aliased = FALSE
    /\ store = <<>>
    /\ prev_store = <<>>
    /\ dispatched = [q \in Pages |-> 0]
    /\ batches = <<>>
    /\ retried = [q \in Pages |-> 0]
    /\ stale = <<>>
    /\ max_workers = SelfMaxWorkers(NoArg)
    /\ jpc = [q \in Pages |-> IF q = 1 THEN "init" ELSE "none"]
    /\ driver = [q \in Pages |-> NoDriver]
    /\ retry_count = [q \in Pages |-> 0]
    /\ sessions = [q \in Pages |-> <<>>]
    /\ ret = [q \in Pages |-> <<>>]
    /\ attempts = [q \in Pages |-> 0]
    /\ outcome = [q \in Pages |-> "none"]
    /\ extracted = [q \in Pages |-> <<0, <<>>>>]
    /\ leaked = 0
    /\ \E sc \in ItemScripts : script = [q \in Pages |-> IF q = 1 THEN sc ELSE <<>>]

SpecItems == InitItems /\ [][JobNext]_vars

\* the lists self.results can hold when save_results is called: up to batch_size
\* records of the pages 1..MaxPage
FlushLists ==
    UNION {[1..k -> {<<q, 1>> : q \in 1..MaxPage}] : k \in 0..batch_size}

\* a caller sets self.results (self.results = all_results)
SetResults ==
    /\ opc \in {"idle", "saved", "save_failed", "save_skipped"}
    /\ \E rs \in FlushLists : results' = rs
    /\ opc' = "idle"
    /\ UNCHANGED <<start_page, end_page, batch_start, collected, all_results,
                   failed_pages, retry_idx, aliased, store, prev_store>>
    /\ UNCHANGED <<jvars, pvars, script, bvars>>
    /\ UNCHANGED <<dispatched, batches, retried, stale, max_workers>>

\* a call of save_results(): it returns at once for an empty self.results, else it
\* writes the files, and logs and swallows an error of the write; prev_store is
\* what the files held before the call
SaveResults ==
    /\ opc \in {"idle", "saved", "save_failed", "save_skipped"}
    /\ \E io \in {"ok", "fail"} :
         /\ store' = Saved(results, io, store)
         /\ opc' = IF results = <<>> THEN "save_skipped"
                   ELSE IF io = "ok" THEN "saved" ELSE "save_failed"
    /\ prev_store' = store
    /\ UNCHANGED <<start_page, end_page, batch_start, collected, all_results,
                   failed_pages, retry_idx, results, aliased>>
    /\ UNCHANGED <<jvars, pvars, script, bvars>>
    /\ UNCHANGED <<dispatched, batches, retried, stale, max_workers>>

FlushNext == SetResults \/ SaveResults

\* a MachineryPeteScraper whose save_results is called with any self.results any
\* number of times, in a directory with or without the files of an earlier run;
\* no crawl is running
InitFlush ==
    /\ PoolInit
    /\ BrandsInit
    /\ start_page = 1
    /\ end_page = 1
    /\ opc = "idle"
    /\ batch_start = 1
    /\ collected = {}
    /\ all_results = <<>>
    /\ failed_pages = <<>>
    /\ retry_idx = 1
    /\ results = <<>>
    /\ aliased = FALSE
    /\ store = <<>>
    /\ prev_store = <<>>
    /\ dispatched = [q \in Pages |-> 0]
    /\ batches = <<>>
    /\ retried = [q \in Pages |-> 0]
    /\ stale \in OldOutputs
    /\ max_workers = SelfMaxWorkers(NoArg)
    /\ jpc = [q \in Pages |-> "none"]
    /\ driver = [q \in Pages |-> NoDriver]
    /\ retry_count = [q \in Pages |-> 0]
    /\ sessions = [q \in Pages |-> <<>>]
    /\ ret = [q \in Pages |-> <<>>]
    /\ attempts = [q \in Pages |-> 0]
    /\ outcome = [q \in Pages |-> "none"]
    /\ extracted = [q \in Pages |-> <<0, <<>>>>]
    /\ leaked = 0
    /\ script = [q \in Pages |-> <<>>]

SpecFlush == InitFlush /\ [][FlushNext]_vars

\* the two threads that call the pool of long provider lists
Callers == {1, 2}

\* a provider list of k candidates, named by their place in list(new_proxies)
LongList(k) == [i \in 1..k |-> i]

\* long provider lists: one candidate, or more candidates than are tested; the
\* candidates that pass the test are those from some place a of the list on: all
\* of them, the last valid_limit - 1 of the tested ones and the untested ones, or
\* only untested ones
LongCases ==
    {<<k, a>> : k \in {1, test_limit + MaxExcess},
                a \in {1, test_limit - valid_limit + 2, test_limit + 1}}

\* the lists update_proxies comes to write for the long provider lists
LongRefreshResults ==
    {ValidProxies(LongList(c[1]), c[2]..c[1]) : c \in LongCases}

\* update_proxies: with self.lock, replace the list, reset the index, stamp the
\* time, for a long provider list
UpWriteLong(t) ==
    /\ tpc[t] = "up_lock"
    /\ CanAcquire(lock, t)
    /\ \E valid_proxies \in LongRefreshResults : proxies' = valid_proxies
    /\ current_index' = ResetIndex(current_index)
    /\ last_update' = now
    /\ lock' = NoThread
    /\ tpc' = [tpc EXCEPT ![t] = IF nested[t] THEN "gp_pick" ELSE "idle"]
    /\ nested' = [nested EXCEPT ![t] = FALSE]
    /\ UNCHANGED <<now, ticks, last_ret, prev_ret>>
    /\ UNCHANGED <<ovars, jvars, script, bvars>>

LongPoolNext ==
    \/ \E t \in Callers : CallGetProxy(t)
    \/ \E t \in Callers : CallUpdateProxies(t)
    \/ \E t \in Callers : GpEnter(t)
    \/ \E t \in Callers : UpFetch(t)
    \/ \E t \in Callers : UpWriteLong(t)
    \/ \E t \in Callers : GpPick(t)
    \/ Tick

\* a ProxyRotator used by two threads, the provider giving long lists
SpecLongPool == InitPool /\ [][LongPoolNext]_vars

\* ------------------------------------- tractorlib.py: the calls
\* a call TractorScraper.chunk_list(lst, chunk_size) with chunk_size >= 1
CallChunkList ==
    /\ bpc = "idle"
    /\ \E k \in 0..NumBrands : \E cs \in 1..(NumBrands + 1) :
         /\ chunk_lst' = SubSeq(BRANDS, 1, k)
         /\ chunk_size' = cs
         /\ brand_chunks' = chunk_list(SubSeq(BRANDS, 1, k), cs)
    /\ bpc' = "chunked"
    /\ UNCHANGED <<num_processes, chunk_done, chunk_results, brand_models,
                   tractor_results>>
    /\ UNCHANGED <<ovars, jvars, pvars, script>>

\* scrape_all_brands(num_processes): the chunks are made and given to pool.map
CallScrapeAllBrands ==
    /\ bpc = "idle"
    /\ \E n \in 1..(NumBrands + 1) :
         /\ num_processes' = n
         /\ chunk_lst' = BRANDS
         /\ chunk_size' = ChunkSize(n)
         /\ brand_chunks' = chunk_list(BRANDS, ChunkSize(n))
    /\ chunk_done' = [j \in DOMAIN brand_chunks' |-> 0]
    /\ chunk_results' = [j \in DOMAIN brand_chunks' |-> <<>>]
    /\ bpc' = "map"
    /\ UNCHANGED <<brand_models, tractor_results>>
    /\ UNCHANGED <<ovars, jvars, pvars, script>>

\* scrape_brand_chunk of chunk j, in a process of the pool: the next brand of the
\* chunk is scraped and its models, if any, are added to the chunk's results
ScrapeBrand(j) ==
    /\ bpc = "map"
    /\ j \in DOMAIN brand_chunks
    /\ chunk_done[j] < Len(brand_chunks[j])
    /\ LET brand == brand_chunks[j][chunk_done[j] + 1]
       IN  \E m \in 0..MaxModels :
             /\ chunk_results' = [chunk_results EXCEPT
                                    ![j] = @ \o BrandRecords(brand, m)]
             /\ brand_models' = [brand_models EXCEPT
                                   ![brand] = Append(@, BrandRecords(brand, m))]
    /\ chunk_done' = [chunk_done EXCEPT ![j] = @ + 1]
    /\ UNCHANGED <<bpc, num_processes, chunk_lst, chunk_size, brand_chunks,
                   tractor_results>>
    /\ UNCHANGED <<ovars, jvars, pvars, script>>

\* pool.map has returned the chunks' results in the order of the chunks; they are
\* added to self.results one after the other, then save_results
CombineChunks ==
    /\ bpc = "map"
    /\ \A j \in DOMAIN brand_chunks : chunk_done[j] = Len(brand_chunks[j])
    /\ tractor_results' = tractor_results \o Flatten(chunk_results)
    /\ bpc' = "saved"
    /\ UNCHANGED <<num_processes, chunk_lst, chunk_size, brand_chunks, chunk_done,
                   chunk_results, brand_models>>
    /\ UNCHANGED <<ovars, jvars, pvars, script>>

BrandsNext ==
    \/ CallChunkList
    \/ CallScrapeAllBrands
    \/ \E j \in 1..NumBrands : ScrapeBrand(j)
    \/ CombineChunks

\* a TractorScraper on which chunk_list or scrape_all_brands is called; no crawl
\* of the auction site is running
SpecBrands == InitPool /\ [][BrandsNext]_vars

\* ================================================================ claims

AllQuitOnce(p) == \A k \in DOMAIN sessions[p] : sessions[p][k] = 1

\* C1: every attempt of scrape_page quits the session it used exactly once on every
\* exit path: after a failed attempt, and when scrape_page has returned, every
\* session the job opened has been quit exactly once (opened = quit), and no
\* session is ever quit twice.
C1_SessionQuitOncePerAttempt ==
    \A p \in Pages :
        /\ \A k \in DOMAIN sessions[p] : sessions[p][k] <= 1
        /\ jpc[p] = "returned" => driver[p] = NoDriver /\ AllQuitOnce(p)
        /\ (jpc[p] = "attempt" /\ retry_count[p] > 0) =>
               driver[p] = NoDriver /\ AllQuitOnce(p)

\* C1 witness: a job returned records from its third attempt, after two attempts
\* that raised, each attempt on a session of its own
C1_Witness ==
    \E p \in Pages :
        /\ jpc[p] = "returned"
        /\ retry_count[p] = 2
        /\ Len(sessions[p]) = 3
        /\ ret[p] # <<>>

\* C2: no browser session outlives the job that started it: once a job has
\* returned or raised, every browser process it started has been quit; this
\* includes a setup_driver that starts the browser and then raises.
C2_NoSessionOutlivesJob ==
    /\ leaked = 0
    /\ \A p \in Pages : jpc[p] \in Finished => Unquit(sessions[p]) = {}


\* C3: a job never makes more than 3 attempts and always terminates; when its
\* first two attempts raised and the third extracted records, it returns exactly
\* the records extracted in the third attempt.
C3_AtMostThreeAttemptsThirdWins ==
    /\ [](\A p \in Pages :
            /\ attempts[p] <= max_retries
            /\ (jpc[p] = "returned" /\ retry_count[p] = 2 /\ outcome[p] = "ok") =>
                   /\ attempts[p] = 3
                   /\ extracted[p][1] = 3
                   /\ ret[p] = extracted[p][2])
    /\ \A p \in Pages : (jpc[p] = "init") ~> (jpc[p] \in Finished)

\* C3 witness: a job has returned the records of its third attempt after two
\* attempts that raised
C3_Witness ==
    \E p \in Pages :
        /\ jpc[p] = "returned"
        /\ attempts[p] = 3
        /\ retry_count[p] = 2
        /\ outcome[p] = "ok"
        /\ ret[p] # <<>>
        /\ ret[p] = extracted[p][2]


\* the main pass is under way or just over (no retry job has been created)
InMainPass == opc \in {"loop", "collect", "delay"} \/ (opc = "retry" /\ retry_idx = 1)

\* pages whose main-pass future was taken by the collection loop
CollectedPages ==
    {p \in Pages : /\ start_page <= p
                   /\ p <= end_page
                   /\ \/ p < batch_start
                      \/ opc = "collect" /\ p \in collected}

\* the batches started so far are contiguous, disjoint, non-empty, of at most
\* batch_size pages, start at start_page and stay within the range
BatchesPartition ==
    /\ \A i \in DOMAIN batches :
         /\ batches[i][1] <= batches[i][2]
         /\ batches[i][2] - batches[i][1] + 1 <= batch_size
         /\ batches[i][2] <= end_page
         /\ batches[i][1] = IF i = 1 THEN start_page ELSE batches[i - 1][2] + 1
         /\ i < Len(batches) => batches[i][2] - batches[i][1] + 1 = batch_size

\* C4: scrape_pages partitions [start_page, end_page] into contiguous disjoint
\* batches covering exactly the range (the last one truncated at end_page),
\* submits exactly one main-pass job per page, and the records accumulated by the
\* main pass are, as a multiset, the records the jobs of the collected pages
\* returned: none lost, none added twice.
C4_BatchesCoverRangeNoLossNoDup ==
    InMainPass =>
        /\ BatchesPartition
        /\ \A p \in Pages : dispatched[p] <= 1
        /\ \A p \in Pages : dispatched[p] = 1 => start_page <= p /\ p <= end_page
        /\ (opc = "retry") =>
               /\ \A p \in start_page..end_page : dispatched[p] = 1
               /\ start_page <= end_page => batches[Len(batches)][2] = end_page
               /\ CollectedPages = start_page..end_page
        /\ \A r \in Range(all_results) : r[1] \in CollectedPages
        /\ \A p \in CollectedPages : \A i \in 1..MaxItems :
               Count(<<p, i>>, all_results) = Count(<<p, i>>, ret[p])

\* C4 witness: the main pass of a three-page range is over: two batches, the
\* second truncated to one page, records of two pages accumulated, one page failed
C4_Witness ==
    /\ opc = "retry"
    /\ retry_idx = 1
    /\ Len(batches) = 2
    /\ batches[2][1] = batches[2][2]
    /\ Len(all_results) >= 2
    /\ Len(failed_pages) = 1

C6_PoolNeverDeadlocks ==
    \A t \in Threads : lock = t => ENABLED CallStep(t)

\* C7: when the pool holds at least 2 identities, two consecutive get_proxy
\* calls never return the same identity, also with a refresh between them.
C7_NoIdentityTwiceInARow ==
    (prev_ret.n >= 2 /\ last_ret.n >= 2) => last_ret.id # prev_ret.id

\* C8: a job that cannot produce records never raises to the orchestrator: every
\* failure is surfaced as an empty result, and a page whose main-pass job gave
\* nothing is in the failed-page list.
C8_JobNeverRaises ==
    /\ \A p \in Pages : jpc[p] # "raised"
    /\ InMainPass =>
           \A p \in CollectedPages :
               ret[p] = <<>> => \E i \in DOMAIN failed_pages : failed_pages[i] = p

\* C9: a job ends in failure only after 3 attempts: every unexpected error, a
\* session that fails to open included (the job's first one too), leads to
\* another attempt while fewer than 3 were made.
C9_FailedOnlyAfterThreeAttempts ==
    \A p \in Pages :
        (jpc[p] = "raised" \/ (jpc[p] = "returned" /\ outcome[p] = "error")) =>
            attempts[p] = max_retries

\* C10: an error of the orchestration loop reaches the caller only after a flush
\* of everything accumulated: when it reaches the caller the output holds all
\* accumulated records.
C10_ErrorPropagatesAfterFlush ==
    opc = "raised" => store = all_results

\* a job whose result the orchestrator is taking has failed: it raised, or it
\* returned no record
TakenFailed(p) ==
    /\ jpc[p] \in Finished
    /\ jpc'[p] = "none"
    /\ ~(jpc[p] = "returned" /\ ret[p] # <<>>)

\* C11: a page's failure never aborts the run. When the orchestrator takes the
\* result of a job that raised or returned nothing, it goes on (a main-pass page
\* is put in the failed-page list, nothing is raised); the run always reaches
\* its normal return, and by then every page of the range had its main-pass job
\* and every failed page its retry job.
C11_PageFailureNeverAbortsRun ==
    /\ [][\A p \in Pages :
            TakenFailed(p) =>
                /\ opc' \in {"collect", "retry"}
                /\ opc = "collect" => failed_pages' = Append(failed_pages, p)
                /\ all_results' = all_results]_vars
    /\ [](opc = "done" =>
            /\ \A p \in start_page..end_page : dispatched[p] = 1
            /\ retry_idx = Len(failed_pages) + 1
            /\ \A p \in Pages : jpc[p] = "none")
    /\ <>(opc = "done")

\* C11 witness: the run returned normally with records of some pages, after
\* two pages failed in the main pass and were retried
C11_Witness ==
    /\ opc = "done"
    /\ Len(failed_pages) = 2
    /\ retry_idx = 3
    /\ all_results # <<>>

\* a retry-pass job is running or being created
InRetryJob == opc = "retry_job"

\* the failed-page list names no page twice
NoRepeat(s) == \A i, j \in DOMAIN s : s[i] = s[j] => i = j

C13_ReturnAfterFinalFlush ==
    opc = "done" => ResultStore(store, stale) = all_results

\* C14: in the scenario (range [1,4], batches of 2, 2 workers, 3 records per page,
\* page 3 timing out at its first two attempts and giving 2 records at the third)
\* the run ends with 3 + 3 + 2 + 3 = 11 accumulated records and an empty
\* failed-page list.
C14_ScenarioElevenRecords ==
    opc = "done" => Len(all_results) = 11 /\ failed_pages = <<>>

\* the records of page p in a record list
RecordsOf(p, rs) == SelectSeq(rs, LAMBDA r : r[1] = p)

\* the job of page p ended with every attempt it made timed out or failed: the
\* item wait timed out, or the third attempt raised
TimedOut(p) ==
    /\ jpc[p] = "returned"
    /\ ret[p] = <<>>
    /\ \/ outcome[p] = "timeout"
       \/ outcome[p] = "error" /\ attempts[p] = max_retries

\* C15: a page whose main-pass job times out in all its attempts is in the
\* failed-page list after the main pass (and has no record yet); when its single
\* retry job times out too, nothing is added for it, the final output holds no
\* record of the page, and scrape_pages returns normally.
C15_TimedOutPageAbsentRunReturns ==
    /\ [][\A p \in Pages :
            (TimedOut(p) /\ jpc'[p] = "none") =>
                /\ all_results' = all_results
                /\ opc = "collect" =>
                       opc' = "collect" /\ failed_pages' = Append(failed_pages, p)
                /\ opc = "retry_job" => opc' = "retry"]_vars
    /\ [](\A i \in 1..Len(failed_pages) :
            (retried[failed_pages[i]] = 0 \/ ret[failed_pages[i]] = <<>>) =>
                /\ RecordsOf(failed_pages[i], all_results) = <<>>
                /\ RecordsOf(failed_pages[i], store) = <<>>)
    /\ [](opc \in {"retry", "retry_job", "done"} =>
            \A p \in start_page..end_page :
                RecordsOf(p, all_results) = <<>> =>
                    \E i \in 1..Len(failed_pages) : failed_pages[i] = p)
    /\ <>(opc = "done")

\* C15 witness: the run returned normally; a page failed in the main pass, its
\* retry job gave nothing, and the output, written with the records of another
\* page, holds no record of it
C15_Witness ==
    /\ opc = "done"
    /\ store # <<>>
    /\ store = all_results
    /\ \E i \in 1..Len(failed_pages) :
          /\ retried[failed_pages[i]] = 1
          /\ ret[failed_pages[i]] = <<>>
          /\ RecordsOf(failed_pages[i], store) = <<>>

\* C16: a timeout of the item wait ends the job at once with zero records: no
\* further attempt in the job, the retry counter not advanced, nothing raised; and
\* the orchestrator puts every main-pass page whose job returned zero records (a
\* timeout, or a page without items) into the failed-page list, from which the
\* retry pass takes it.
C16_TimeoutEndsJobPageMarkedFailed ==
    /\ [][\A p \in Pages :
            (jpc[p] = "wait" /\ outcome'[p] \in {"timeout", "empty"}) =>
                /\ jpc'[p] = "returned"
                /\ ret'[p] = <<>>
                /\ retry_count'[p] = retry_count[p]
                /\ attempts'[p] = attempts[p]]_vars
    /\ [][\A p \in Pages :
            jpc[p] = "returned" => jpc'[p] \in {"returned", "none"}]_vars
    /\ [][\A p \in Pages :
            (opc = "collect" /\ jpc[p] = "returned" /\ ret[p] = <<>>
                /\ jpc'[p] = "none") =>
                    /\ failed_pages' = Append(failed_pages, p)
                    /\ all_results' = all_results
                    /\ opc' = "collect"]_vars
    /\ []((opc = "retry" /\ retry_idx <= Len(failed_pages)) => ENABLED RetryStart)
    /\ [](opc = "done" =>
            \A i \in 1..Len(failed_pages) : retried[failed_pages[i]] = 1)

\* C16 witness: a page went to the failed-page list in the main pass and its
\* retry job has ended with a timeout of the item wait in its first attempt
C16_Witness ==
    \E p \in Pages :
        /\ opc = "retry_job"
        /\ failed_pages[retry_idx] = p
        /\ jpc[p] = "returned"
        /\ outcome[p] = "timeout"
        /\ attempts[p] = 1
        /\ retry_count[p] = 0
        /\ ret[p] = <<>>

\* jobs that were submitted or created and have not ended
Alive == {p \in Pages : jpc[p] \in Running \cup {"queued"}}

\* C17: batches are processed strictly one after the other: a job that has not
\* ended belongs to the batch under way; a new batch is started, and the flush of
\* a batch is made, only when every job of the batch before has ended (returned
\* or raised) and its result was taken.
C17_BatchesStrictlySequential ==
    /\ [](opc \in {"loop", "collect", "unwind"} =>
            \A p \in Alive :
                /\ Len(batches) > 0
                /\ batches[Len(batches)][1] <= p
                /\ p <= batches[Len(batches)][2])
    /\ [](opc = "loop" => \A p \in Pages : jpc[p] = "none")
    /\ [][Len(batches') > Len(batches) =>
            /\ \A p \in Pages : jpc[p] = "none"
            /\ \A i \in 1..Len(batches) : \A p \in batches[i][1]..batches[i][2] :
                   dispatched[p] = 1]_vars
    /\ [][(store' # store \/ batch_start' # batch_start) =>
            /\ \A p \in Pages : jpc[p] = "none"
            /\ opc = "collect" => collected = BatchPages(batch_start, end_page)]_vars

\* C17 witness: the second batch is under way, a job of it is running, after the
\* first batch of two pages ended, with one page failed, and was flushed
C17_Witness ==
    /\ opc = "collect"
    /\ Len(batches) = 2
    /\ store # <<>>
    /\ Len(failed_pages) = 1
    /\ \E p \in Pages : jpc[p] \in Running

\* jobs that a thread is executing
Executing == {p \in Pages : jpc[p] \in Running}

\* C18: at no time are more jobs executing than the worker-pool size the
\* orchestrator was constructed with (self.max_workers).
C18_AtMostConfiguredWorkers ==
    Cardinality(Executing) <= max_workers

RECURSIVE SumOver(_, _)
SumOver(f, S) ==
    IF S = {} THEN 0
    ELSE LET x == CHOOSE y \in S : TRUE IN f[x] + SumOver(f, S \ {x})

\* browser sessions that are open: those of the jobs under way that were not quit,
\* and those that ended jobs left open
OpenSessions ==
    leaked + SumOver([p \in Pages |-> Cardinality(Unquit(sessions[p]))], Executing)

\* C19: in every reachable state the number of open browser sessions is at most
\* the worker-pool size (2), in the main pass and in the retry pass, whatever
\* jobs succeeded or failed before.
C19_OpenSessionsWithinPool ==
    OpenSessions <= pool_workers

\* pages with records accumulated in memory of which the output holds none
Unflushed ==
    {p \in Pages : RecordsOf(p, all_results) # <<>> /\ RecordsOf(p, store) = <<>>}

\* C20: at every point of the run, in the main pass and in the retry pass, the
\* records accumulated but not yet written by a flush come from at most
\* batch_size pages.
C20_UnflushedWithinOneBatch ==
    Cardinality(Unflushed) <= batch_size

\* C21: a get_proxy call whose refresh finds no usable identity returns None and
\* leaves the pool usable: the refresh that get_proxy started can write its list
\* (empty or not) to the pool, and a get_proxy call that finds the pool empty
\* after the refresh can return.
C21_EmptyRefreshReturnsNone ==
    \A t \in Threads :
        /\ (nested[t] /\ tpc[t] = "up_lock") => ENABLED UpWrite(t)
        /\ (tpc[t] = "gp_pick" /\ proxies = <<>>) => ENABLED GpPick(t)

\* a get_proxy or update_proxies call was made on the pool: one is in progress, or
\* one has written the time of its refresh
PoolConsulted ==
    \/ \E t \in Threads : tpc[t] # "idle"
    \/ lock # NoThread
    \/ last_update # 0

\* C22: every attempt of a job consults the pool: an attempt that has navigated
\* was preceded by a get_proxy call.
C22_AttemptConsultsPool ==
    \A p \in Pages : jpc[p] = "wait" => PoolConsulted

\* the job of page p is at the position that follows a _scroll_page call
Scrolled(p) == jpc[p] = "scrolled"

\* C23: every attempt sleeps, navigates, scrolls and waits, and only then
\* extracts: the step that extracts the items of page p is taken from the
\* position after the scroll, and the navigation is taken from the position
\* after the head of the loop.
C23_ScrollBeforeExtraction ==
    [][\A p \in Pages :
         /\ (jpc[p] # "wait" /\ jpc'[p] = "wait") => jpc[p] = "nav"
         /\ (jpc[p] \in Running /\ jpc'[p] = "returned" /\ outcome'[p] = "ok") =>
                Scrolled(p)]_vars

\* the records are in the order of the element list
OnPageOrder(rs) == \A i, j \in DOMAIN rs : i < j => rs[i][2] < rs[j][2]

\* C24: an element that gives no record is skipped and the attempt goes on: when
\* the item wait of page p finds n elements of which those in kept give a record,
\* the attempt returns (it does not raise and is not counted as failed) exactly
\* one record per element of kept, in the order of the element list.
C24_ItemFailureSkipsOnlyThatItem ==
    [][\A p \in Pages :
         (/\ script[p] # <<>>
          /\ script'[p] = Tail(script[p])
          /\ Head(script[p])[1] = "found") =>
             LET kept == Head(script[p])[3]
             IN  /\ jpc'[p] = "returned"
                 /\ outcome'[p] = "ok"
                 /\ retry_count'[p] = retry_count[p]
                 /\ Len(ret'[p]) = Cardinality(kept)
                 /\ Range(ret'[p]) = {<<p, i>> : i \in kept}
                 /\ OnPageOrder(ret'[p])]_vars

\* C24 witness: a page showed three elements, the second gave no record, and the
\* job returned the records of the first and the third, in that order
C24_Witness ==
    \E p \in Pages :
        /\ jpc[p] = "returned"
        /\ outcome[p] = "ok"
        /\ ret[p] = <<<<p, 1>>, <<p, 3>>>>

\* C25: a browser session is never reused across attempts. At the head of the
\* loop after a failed attempt the job has no driver and every session it opened
\* has been quit; an attempt navigates on the session opened last, which is the
\* only one not yet quit; so a job holds at most one open session.
C25_NoSessionReuse ==
    \A p \in Pages :
        /\ Cardinality(Unquit(sessions[p])) <= 1
        /\ (jpc[p] = "attempt" /\ attempts[p] > 0) =>
               /\ driver[p] = NoDriver
               /\ Unquit(sessions[p]) = {}
        /\ jpc[p] \in {"nav", "wait"} =>
               /\ driver[p] = Len(sessions[p])
               /\ driver[p] # NoDriver
               /\ Unquit(sessions[p]) = {driver[p]}

\* C25 witness: the second attempt of a job has navigated on the job's second
\* session, the first session having been quit after the first attempt failed
C25_Witness ==
    \E p \in Pages :
        /\ jpc[p] = "wait"
        /\ attempts[p] = 2
        /\ Len(sessions[p]) = 2
        /\ sessions[p][1] = 1
        /\ sessions[p][2] = 0

\* the records of a page are next to each other in the list
Contiguous(rs) ==
    \A i, k \in DOMAIN rs :
        (i < k /\ rs[i][1] = rs[k][1]) => \A j \in i..k : rs[j][1] = rs[i][1]

\* C26: the accumulated list changes only in a step of the orchestrator that
\* takes the result of a job that has returned, and then by the whole list the job
\* returned, added at the end; no step of a worker thread changes it; a flush is
\* made only when no job is queued or executing; and the records of a page are
\* always one contiguous block of the accumulated list.
C26_OnlyCollectionLoopExtends ==
    /\ [][all_results' # all_results =>
            /\ opc \in {"collect", "retry_job"}
            /\ \E p \in Pages :
                  /\ jpc[p] = "returned"
                  /\ jpc'[p] = "none"
                  /\ all_results' = all_results \o ret[p]]_vars
    /\ [][(\E p \in Pages : jpc[p] \in Running \cup {"queued"} /\ jpc'[p] # jpc[p]) =>
            all_results' = all_results /\ results' = results]_vars
    /\ [][(store' # store \/ (opc = "collect" /\ opc' = "delay")
             \/ (opc = "retry" /\ opc' = "done")) =>
            \A p \in Pages : jpc[p] \notin Running \cup {"queued"}]_vars
    /\ [](Contiguous(all_results))

\* C26 witness: the records of three pages are accumulated, three of each page,
\* those of page 2 before those of page 1, after two flushes
C26_Witness ==
    /\ Len(all_results) = 9
    /\ all_results[1][1] = 2
    /\ all_results[4][1] = 1
    /\ store = all_results
    /\ prev_store # <<>>

\* a step that is a call of save_results
IsFlush == opc' \in {"saved", "save_failed", "save_skipped"}

\* C27: save_results overwrites and is idempotent. After a call that wrote the
\* files they hold exactly self.results; a second call with self.results as it
\* was leaves the files as the first left them; no call changes self.results.
C27_FlushOverwritesIdempotent ==
    /\ [](opc = "saved" => ResultStore(store, stale) = results)
    /\ [][(opc = "saved" /\ opc' = "saved") => store' = store]_vars
    /\ [][IsFlush => results' = results]_vars

\* C27 witness: a second save_results call with the same two records has written
\* files that already held them
C27_Witness ==
    /\ opc = "saved"
    /\ Len(results) = 2
    /\ store = results
    /\ prev_store = results

\* thread t returns from get_proxy in this step
GpReturns(t) == tpc[t] = "gp_pick" /\ tpc'[t] = "idle"

\* thread t writes the result of a refresh to the pool in this step
RefreshWrites(t) == tpc[t] = "up_lock" /\ tpc'[t] # "up_lock"

\* C28: get_proxy starts a refresh only when the pool is empty or its last refresh
\* is more than update_interval (300) seconds old. A get_proxy call that returns
\* an identity leaves the list and the refresh time as they are, returns the
\* identity at the rotation index and advances the index by one, cyclically. The
\* list, the index and the refresh time change in no other step than such a
\* return and the write of a refresh: between refreshes no identity leaves the
\* list and consecutive calls return the identities in list order, each once in
\* every n calls on a list of n.
C28_RefreshOnlyWhenEmptyOrStale ==
    /\ [][\A t \in Threads :
            (tpc[t] = "gp_lock" /\ tpc'[t] = "up_fetch") =>
                (proxies = <<>> \/ now - last_update > 300)]_vars
    /\ [][\A t \in Threads :
            (GpReturns(t) /\ proxies # <<>>) =>
                /\ proxies' = proxies
                /\ last_update' = last_update
                /\ last_ret'.id = proxies[current_index + 1]
                /\ current_index' = (current_index + 1) % Len(proxies)]_vars
    /\ [][(proxies' # proxies \/ last_update' # last_update
             \/ current_index' # current_index) =>
            \E t \in Threads : GpReturns(t) \/ RefreshWrites(t)]_vars
    /\ [](proxies # <<>> => current_index \in 0..(Len(proxies) - 1))
    /\ []((proxies # <<>> /\ current_index > 0) =>
            last_ret.id = proxies[current_index])

\* C28 witness: two get_proxy calls without a refresh returned the two identities
\* of a pool of two, in list order, and the index is back at the first
C28_Witness ==
    /\ Len(proxies) = 2
    /\ current_index = 0
    /\ prev_ret = [id |-> proxies[1], n |-> 2]
    /\ last_ret = [id |-> proxies[2], n |-> 2]

\* C29: setup_driver fails only after both the primary and the fallback
\* initialisation have failed: a PageScraper whose construction raised has
\* started no browser.
C29_SetupFailsOnlyAfterBothFail ==
    [][\A p \in Pages :
         (jpc[p] = "init" /\ jpc'[p] = "raised") => sessions'[p] = sessions[p]]_vars

\* C30: a delay follows every batch of the main pass, whatever its jobs gave: the
\* collection of a batch is left only into the delay (or by an error of the loop
\* itself), and the head of the batch loop, where the next batch starts or the
\* main pass ends, is reached again only from the delay.
C30_DelayAfterEveryBatch ==
    /\ [][(opc = "collect" /\ opc' \notin {"collect", "unwind"}) =>
            opc' = "delay"]_vars
    /\ [][(opc' = "loop" /\ opc # "loop") => opc = "delay"]_vars
    /\ [][Len(batches') > Len(batches) => opc = "loop"]_vars
    /\ [](opc = "delay" => ENABLED Delay)

\* C30 witness: the delay after a batch of two pages whose jobs both failed
C30_Witness ==
    /\ opc = "delay"
    /\ Len(batches) = 1
    /\ Len(failed_pages) = 2
    /\ all_results = <<>>

\* page p is named by the failed-page list
IsFailedPage(p) == \E i \in DOMAIN failed_pages : failed_pages[i] = p

\* C31: no page contributes records twice. The failed-page list names a page at
\* most once; a retry job is created only for a page of that list, of which the
\* accumulated list holds no record; the result of a job is added only for a page
\* that has no record yet; so the accumulated list holds each record once and,
\* per page, the result of a single job.
C31_AtMostOneJobResultPerPage ==
    /\ [](NoRepeat(failed_pages))
    /\ [](NoRepeat(all_results))
    /\ [](InMainPass => \A p \in Pages : IsFailedPage(p) => RecordsOf(p, all_results) = <<>>)
    /\ [][\A p \in Pages :
            retried'[p] > retried[p] =>
                /\ IsFailedPage(p)
                /\ retried[p] = 0
                /\ dispatched[p] = 1
                /\ RecordsOf(p, all_results) = <<>>]_vars
    /\ [][\A p \in Pages :
            RecordsOf(p, all_results') # RecordsOf(p, all_results) =>
                /\ RecordsOf(p, all_results) = <<>>
                /\ RecordsOf(p, all_results') = ret[p]]_vars

\* C31 witness: the run returned with the record of a page added by its retry
\* job and the record of another page added in the main pass
C31_Witness ==
    /\ opc = "done"
    /\ \E p, q \in Pages :
          /\ IsFailedPage(p)
          /\ retried[p] = 1
          /\ RecordsOf(p, all_results) # <<>>
          /\ ~IsFailedPage(q)
          /\ RecordsOf(q, all_results) # <<>>

\* the step ends the collection of a batch, with records accumulated, and the
\* output does not hold them after it: the write of save_results failed
WriteFailed ==
    /\ opc = "collect"
    /\ batch_start' # batch_start
    /\ all_results # <<>>
    /\ store' # all_results

PoolWritten ==
    proxies' # proxies \/ current_index' # current_index \/ last_update' # last_update

\* C32: the pool's state invariant under any interleaving of get_proxy and
\* update_proxies calls: the pool holds at most valid_limit (10) identities, all
\* among the first test_limit (50) candidates of the provider's list and in the
\* order of that list; the rotation index is within the list whenever the list is
\* not empty, so that get_proxy indexes inside it; and the list, the index and
\* the refresh time are written only by a thread that holds the lock, no other
\* thread holding it.
C32_PoolStateInvariant ==
    /\ [](Len(proxies) <= 10)
    /\ [](\A i \in DOMAIN proxies : proxies[i] <= 50)
    /\ [](\A i, j \in DOMAIN proxies : i < j => proxies[i] < proxies[j])
    /\ [](proxies # <<>> => (0 <= current_index /\ current_index < Len(proxies)))
    /\ [](\A t \in Threads :
            (tpc[t] = "gp_pick" /\ proxies # <<>>) =>
                (lock = t /\ current_index + 1 \in DOMAIN proxies))
    /\ [][PoolWritten =>
            \E t \in Threads :
                /\ tpc'[t] # tpc[t]
                /\ tpc[t] \in {"gp_pick", "up_lock"}
                /\ lock \in {t, NoThread}
                /\ lock' = NoThread]_vars

\* C32 witness: a refresh on a list of more than test_limit candidates that all
\* pass kept the first valid_limit, and get_proxy has walked through all ten
C32_Witness ==
    /\ Len(proxies) = valid_limit
    /\ current_index = valid_limit - 1
    /\ last_ret = [id |-> proxies[valid_limit - 1], n |-> valid_limit]

\* C34: chunk_list(lst, chunk_size), chunk_size >= 1, returns non-empty chunks of
\* at most chunk_size elements whose concatenation is lst; and scrape_all_brands,
\* for every num_processes >= 1, calls scrape_brand_models once for every brand of
\* BRANDS (never twice) and leaves in self.results the brands' records in the
\* order of BRANDS.
C34_ChunksPartitionBrandsOnce ==
    /\ bpc # "idle" =>
           /\ chunk_size >= 1
           /\ \A j \in DOMAIN brand_chunks :
                  /\ brand_chunks[j] # <<>>
                  /\ Len(brand_chunks[j]) <= chunk_size
           /\ Flatten(brand_chunks) = chunk_lst
    /\ \A b \in 1..NumBrands : Len(brand_models[b]) <= 1
    /\ bpc = "saved" =>
           /\ \A b \in 1..NumBrands : Len(brand_models[b]) = 1
           /\ tractor_results =
                  Flatten([b \in 1..NumBrands |-> brand_models[b][1]])

\* C34 witness: scrape_all_brands ended with more chunks than processes, a chunk
\* of a single brand among them, every brand having given a record
C34_Witness ==
    /\ bpc = "saved"
    /\ num_processes > 1
    /\ Len(brand_chunks) > num_processes
    /\ Len(tractor_results) = NumBrands

====
